---- MODULE Spec2Model ----
(***************************************************************************)
(* Model of AssessingVulerabilityProcessingAlgorithm.processAlgorithm      *)
(* (src/viticulture_tool.py): the viticulture suitability pipeline.        *)
(*                                                                         *)
(* Rasters are functions over a small aligned grid of square cells.  The   *)
(* working directory is shared state: every intermediate has a fixed file  *)
(* name, so two invocations of the algorithm on the same directory write   *)
(* the same files.  Each file records which invocation wrote it last.      *)
(*                                                                         *)
(* External engines are taken at their contract: qgis:rastercalculator     *)
(* evaluates the given expression cell by cell, gdal:polygonize emits one  *)
(* polygon per maximal 4-connected region of equal value, $area is the     *)
(* planar area of a feature's geometry, every processing.run call either   *)
(* writes its whole output (replacing the file) or raises, and the         *)
(* QgsVectorLayer calls report failure by returning False.                 *)
(***************************************************************************)
EXTENDS Integers, FiniteSets, TLC

\* Grid of the aligned rasters: W columns, two rows.
W == 2

Cells == (1..W) \X (1..2)

RunIds == {1, 2}

\* Raster cell side lengths (map units) the scenarios use.
CellSides == {100, 200, 300}

NULL == -1

VARIABLES
    serialized,         \* the caller never overlaps two invocations
    cellsize,           \* cell side of the aligned rasters
    land_use,           \* land_use[r]: LAND_USE_RASTER parameter of run r
    dem,                \* DEM.tif, as the slope (degrees) native:slope derives
    urban,              \* urban.tif
    existing_vineyard,  \* existing_vineyard.tif
    suit_lu,            \* suit_lu.tif
    slope,              \* slope.tif
    suit_slope,         \* suit_slope.tif
    result_lu,          \* result_lu.tif
    result_pol,         \* result_pol.shp
    outputFile,         \* outputFile[r]: the OUTPUT destination of run r
    lyr,                \* lyr[r]: result_lu_layer of run r
    features,           \* features[r]: what is left of the feature iterator
    selected,           \* selected[r]: the layer's selection
    pc,                 \* pc[r]: the statement run r is about to execute
    reads,              \* reads[r]: <<intermediate, writer>> pairs run r read
    failed,             \* failed[r]: first operation of run r that failed
    overlapped          \* two runs have been in progress at the same time

vars == <<serialized, cellsize, land_use, dem, urban, existing_vineyard,
          suit_lu, slope, suit_slope, result_lu, result_pol, outputFile,
          lyr, features, selected, pc, reads, failed, overlapped>>

dirFiles == <<cellsize, land_use, dem, urban, existing_vineyard>>

----
\* Pure functions

\* A comparison in a raster calculator expression yields 1 or 0.
B2I(b) == IF b THEN 1 ELSE 0

\* Variant: the upper bound of the class range taken inclusive.
LandUseExprInclusive(v) == B2I(v > 1 /\ v <= 9) * v

\* '("land_use@1" > 1 AND "land_use@1" < 9) * "land_use@1"'
LandUseExpr(v) == B2I(v > 1 /\ v < 9) * v

\* Variant: the slope threshold taken strict.
SlopeExprStrict(s) == B2I(s < 20) * 1

\* '("slope@1" <= 20) * 1'
SlopeExpr(s) == B2I(s <= 20) * 1

\* Variant: the urban mask tested for nonzero, like the land-use mask.
CompositeExprAnyUrban(ss, sl, u, ev) == B2I(ss = 1 /\ sl > 0 /\ u > 0 /\ ev = 1) * 1

\* '("suit_slope@1" =1 AND "suit_lu@1">0 AND "urban@1"=1 AND "existing_vineyard@1"=1)*1'
CompositeExpr(ss, sl, u, ev) == B2I(ss = 1 /\ sl > 0 /\ u = 1 /\ ev = 1) * 1

\* Variant: 'EIGHT_CONNECTEDNESS': True
AdjacentEight(a, b) ==
    /\ a # b
    /\ a[1] - b[1] \in {-1, 0, 1}
    /\ a[2] - b[2] \in {-1, 0, 1}

\* 'EIGHT_CONNECTEDNESS': False
Adjacent(a, b) ==
    \/ a[1] = b[1] /\ (a[2] = b[2] + 1 \/ b[2] = a[2] + 1)
    \/ a[2] = b[2] /\ (a[1] = b[1] + 1 \/ b[1] = a[1] + 1)

RECURSIVE Grow(_, _)
Grow(region, same) ==
    LET more == region \cup {d \in same : \E e \in region : Adjacent(d, e)}
    IN  IF more = region THEN region ELSE Grow(more, same)

\* gdal:polygonize with FIELD 'DN': one polygon per maximal connected region
\* of equal cell value, DN set to that value.
Polygonize(raster) ==
    {[geom |-> Grow({c}, {d \in Cells : raster[d] = raster[c]}), DN |-> raster[c]] :
        c \in Cells}

\* QgsExpression('$area') on a feature: the planar area of its geometry.
ExprArea(feat, side) == Cardinality(feat.geom) * side * side

\* Variant: the area threshold taken inclusive.
SelectQueryInclusive(feat, side) == ExprArea(feat, side) >= 40000 /\ feat.DN = 1

\* query = '$area > 40000 and DN=1'
SelectQuery(feat, side) == ExprArea(feat, side) > 40000 /\ feat.DN = 1

----
\* Files and layer objects

NoRaster == [exists |-> FALSE, by |-> 0, data |-> [c \in Cells |-> 0]]
RasterFile(r, d) == [exists |-> TRUE, by |-> r, data |-> d]

NoVector == [exists |-> FALSE, by |-> 0, feats |-> {}, hasArea |-> FALSE,
             area |-> [f \in {} |-> NULL]]

NoOutput == [exists |-> FALSE, feats |-> {}]

NoLayer == [valid |-> FALSE, editing |-> FALSE, hasArea |-> FALSE,
            committed |-> FALSE, buf |-> [f \in {} |-> NULL]]

\* Features the layer object of run r delivers (getFeatures, selectByExpression).
LayerFeatures(r) == IF lyr[r].valid /\ result_pol.exists THEN result_pol.feats ELSE {}

\* The 'area' attribute of feature f as seen through the layer of run r:
\* the edit buffer's value if there is one, else the provider's.
LayerArea(r, f) ==
    IF f \in DOMAIN lyr[r].buf THEN lyr[r].buf[f]
    ELSE IF result_pol.exists /\ result_pol.hasArea /\ f \in DOMAIN result_pol.area
         THEN result_pol.area[f]
         ELSE NULL

InProgress(r) == pc[r] \notin {"unused", "idle", "done", "aborted"}

\* Bookkeeping: the first operation of run r that failed.
Fail(r, what) == IF failed[r] = "none" THEN [failed EXCEPT ![r] = what] ELSE failed

\* Bookkeeping: run r read intermediate `name`, last written by file.by.
Read(r, name, file) == [reads EXCEPT ![r] = @ \cup {<<name, file.by>>}]

\* A processing.run call raised QgsProcessingException: the exception leaves
\* processAlgorithm, nothing after the call executes.
Raise(r, stage) ==
    /\ pc' = [pc EXCEPT ![r] = "aborted"]
    /\ failed' = Fail(r, stage)

----
\* Initial states

Uniform(v) == [c \in Cells |-> v]

Blank ==
    /\ suit_lu = NoRaster /\ slope = NoRaster /\ suit_slope = NoRaster
    /\ result_lu = NoRaster /\ result_pol = NoVector
    /\ outputFile = [r \in RunIds |-> NoOutput]
    /\ lyr = [r \in RunIds |-> NoLayer]
    /\ features = [r \in RunIds |-> {}]
    /\ selected = [r \in RunIds |-> {}]
    /\ reads = [r \in RunIds |-> {}]
    /\ failed = [r \in RunIds |-> "none"]
    /\ overlapped = FALSE

\* The directory holds the given rasters (sl: the slope DEM.tif yields).
Given(lu, sl, ur, ev, side) ==
    /\ land_use = [r \in RunIds |-> lu]
    /\ dem = RasterFile(0, sl)
    /\ urban = RasterFile(0, ur)
    /\ existing_vineyard = RasterFile(0, ev)
    /\ cellsize = side

\* One invocation; one input raster at a time ranges over its value set.
InitSingle ==
    /\ pc = [r \in RunIds |-> IF r = 1 THEN "idle" ELSE "unused"]
    /\ \/ \E lu \in [Cells -> {1, 2, 8, 9}] :
             Given(lu, Uniform(19), Uniform(1), Uniform(1), 300)
       \/ \E sl \in [Cells -> {19, 20, 21}] :
             Given(Uniform(5), sl, Uniform(1), Uniform(1), 300)
       \/ \E ur \in [Cells -> {0, 1, 2}] :
             Given(Uniform(5), Uniform(20), ur, Uniform(1), 300)
       \/ \E ev \in [Cells -> {0, 1, 2}] :
             Given(Uniform(8), Uniform(20), Uniform(1), ev, 300)
       \/ \E lu \in [Cells -> {1, 5}], side \in CellSides :
             Given(lu, Uniform(19), Uniform(1), Uniform(1), side)
       \/ \E lu \in [Cells -> {1, 5}], sl \in {Uniform(20), [c \in Cells |-> 19 + c[1]]} :
             \E ur \in {Uniform(1), [c \in Cells |-> c[2]]},
                ev \in {Uniform(1), [c \in Cells |-> c[1] % 2]} :
                Given(lu, sl, ur, ev, 200)
       \/ /\ land_use = [r \in RunIds |-> Uniform(5)]
          /\ dem = NoRaster
          /\ urban = RasterFile(0, Uniform(1))
          /\ existing_vineyard = RasterFile(0, Uniform(1))
          /\ cellsize = 300

\* Two invocations on the same directory with different land-use rasters.
InitTwo ==
    /\ pc = [r \in RunIds |-> "idle"]
    /\ cellsize = 300
    /\ \E lu \in [Cells -> {1, 5}] :
          land_use = [r \in RunIds |-> IF r = 1 THEN lu ELSE Uniform(5)]
    /\ dem = RasterFile(0, Uniform(19))
    /\ urban = RasterFile(0, Uniform(1))
    /\ existing_vineyard = RasterFile(0, Uniform(1))

Init ==
    /\ serialized = TRUE
    /\ Blank
    /\ InitSingle \/ InitTwo

InitConc ==
    /\ serialized = FALSE
    /\ Blank
    /\ pc = [r \in RunIds |-> "idle"]
    /\ cellsize = 300
    /\ land_use = [r \in RunIds |-> IF r = 1 THEN Uniform(1) ELSE Uniform(5)]
    /\ dem = RasterFile(0, Uniform(19))
    /\ urban = RasterFile(0, Uniform(1))
    /\ existing_vineyard = RasterFile(0, Uniform(1))

----
\* processAlgorithm, statement by statement

perRun == <<outputFile, lyr, features, selected>>
rasters == <<suit_lu, slope, suit_slope, result_lu>>

\* The caller invokes the algorithm.  A caller that serializes invocations
\* waits until no other invocation on the directory is in progress.
Start(r) ==
    /\ pc[r] = "idle"
    /\ serialized => \A o \in RunIds \ {r} : ~InProgress(o)
    /\ pc' = [pc EXCEPT ![r] = "lu"]
    /\ overlapped' = (overlapped \/ \E o \in RunIds \ {r} : InProgress(o))
    /\ UNCHANGED <<serialized, dirFiles, rasters, result_pol, perRun, reads, failed>>

\* #2: rastercalculator over the land-use parameter -> suit_lu.tif
LandUseFilter(r) ==
    /\ pc[r] = "lu"
    /\ \/ /\ suit_lu' = RasterFile(r, [c \in Cells |-> LandUseExpr(land_use[r][c])])
          /\ pc' = [pc EXCEPT ![r] = "slope"]
          /\ UNCHANGED failed
       \/ /\ Raise(r, "lu")
          /\ UNCHANGED suit_lu
    /\ UNCHANGED <<serialized, dirFiles, slope, suit_slope, result_lu, result_pol,
                   perRun, reads, overlapped>>

\* Variant: slope.tif is kept when the directory already holds one.
SlopeDeriveCached(r) ==
    /\ pc[r] = "slope"
    /\ \/ /\ dem.exists
          /\ slope' = IF slope.exists THEN slope ELSE RasterFile(r, dem.data)
          /\ pc' = [pc EXCEPT ![r] = "sfilter"]
          /\ UNCHANGED failed
       \/ /\ Raise(r, "slope")
          /\ UNCHANGED slope
    /\ UNCHANGED <<serialized, dirFiles, suit_lu, suit_slope, result_lu, result_pol,
                   perRun, reads, overlapped>>

\* #3: native:slope DEM.tif -> slope.tif
SlopeDerive(r) ==
    /\ pc[r] = "slope"
    /\ \/ /\ dem.exists
          /\ slope' = RasterFile(r, dem.data)
          /\ pc' = [pc EXCEPT ![r] = "sfilter"]
          /\ UNCHANGED failed
       \/ /\ Raise(r, "slope")
          /\ UNCHANGED slope
    /\ UNCHANGED <<serialized, dirFiles, suit_lu, suit_slope, result_lu, result_pol,
                   perRun, reads, overlapped>>

\* #4: rastercalculator over slope.tif -> suit_slope.tif
SlopeFilter(r) ==
    /\ pc[r] = "sfilter"
    /\ \/ /\ slope.exists
          /\ suit_slope' = RasterFile(r, [c \in Cells |-> SlopeExpr(slope.data[c])])
          /\ reads' = Read(r, "slope.tif", slope)
          /\ pc' = [pc EXCEPT ![r] = "comp"]
          /\ UNCHANGED failed
       \/ /\ Raise(r, "sfilter")
          /\ UNCHANGED <<suit_slope, reads>>
    /\ UNCHANGED <<serialized, dirFiles, suit_lu, slope, result_lu, result_pol,
                   perRun, overlapped>>

\* #5-#7: rastercalculator over suit_slope.tif, suit_lu.tif, urban.tif and
\* existing_vineyard.tif -> result_lu.tif
Composite(r) ==
    /\ pc[r] = "comp"
    /\ \/ /\ suit_slope.exists /\ suit_lu.exists
          /\ urban.exists /\ existing_vineyard.exists
          /\ result_lu' = RasterFile(r, [c \in Cells |->
                 CompositeExpr(suit_slope.data[c], suit_lu.data[c],
                               urban.data[c], existing_vineyard.data[c])])
          /\ reads' = [reads EXCEPT ![r] = @ \cup {<<"suit_slope.tif", suit_slope.by>>,
                                                    <<"suit_lu.tif", suit_lu.by>>}]
          /\ pc' = [pc EXCEPT ![r] = "poly"]
          /\ UNCHANGED failed
       \/ /\ Raise(r, "comp")
          /\ UNCHANGED <<result_lu, reads>>
    /\ UNCHANGED <<serialized, dirFiles, suit_lu, slope, suit_slope, result_pol,
                   perRun, overlapped>>

\* Variant: an existing result_pol.shp is left as it is.
VectorizeKeepExisting(r) ==
    /\ pc[r] = "poly"
    /\ \/ /\ result_lu.exists
          /\ LET polys == Polygonize(result_lu.data)
             IN  result_pol' =
                    IF result_pol.exists THEN result_pol
                    ELSE [exists |-> TRUE, by |-> r, feats |-> polys,
                          hasArea |-> FALSE, area |-> [f \in polys |-> NULL]]
          /\ reads' = Read(r, "result_lu.tif", result_lu)
          /\ pc' = [pc EXCEPT ![r] = "load"]
          /\ UNCHANGED failed
       \/ /\ Raise(r, "poly")
          /\ UNCHANGED <<result_pol, reads>>
    /\ UNCHANGED <<serialized, dirFiles, rasters, perRun, overlapped>>

\* #8: gdal:polygonize result_lu.tif -> result_pol.shp
Vectorize(r) ==
    /\ pc[r] = "poly"
    /\ \/ /\ result_lu.exists
          /\ LET polys == Polygonize(result_lu.data)
             IN  result_pol' = [exists |-> TRUE, by |-> r, feats |-> polys,
                                hasArea |-> FALSE, area |-> [f \in polys |-> NULL]]
          /\ reads' = Read(r, "result_lu.tif", result_lu)
          /\ pc' = [pc EXCEPT ![r] = "load"]
          /\ UNCHANGED failed
       \/ /\ Raise(r, "poly")
          /\ UNCHANGED <<result_pol, reads>>
    /\ UNCHANGED <<serialized, dirFiles, rasters, perRun, overlapped>>

\* #9.1, lines 220-221: QgsVectorLayer(result_pol.shp) and startEditing().
\* Neither isValid() nor startEditing()'s result is looked at.
LoadLayer(r) ==
    /\ pc[r] = "load"
    /\ \/ /\ result_pol.exists
          /\ lyr' = [lyr EXCEPT ![r] = [NoLayer EXCEPT !.valid = TRUE, !.editing = TRUE,
                                                      !.hasArea = result_pol.hasArea]]
          /\ UNCHANGED failed
       \/ /\ result_pol.exists
          /\ lyr' = [lyr EXCEPT ![r] = [NoLayer EXCEPT !.valid = TRUE,
                                                      !.hasArea = result_pol.hasArea]]
          /\ failed' = Fail(r, "startEditing")
       \/ /\ lyr' = [lyr EXCEPT ![r] = NoLayer]
          /\ failed' = Fail(r, "load")
    /\ reads' = Read(r, "result_pol.shp", result_pol)
    /\ pc' = [pc EXCEPT ![r] = "addattr"]
    /\ UNCHANGED <<serialized, dirFiles, rasters, result_pol, outputFile, features,
                   selected, overlapped>>

\* #9.1-#9.2, lines 223-232: the field is added through the data provider,
\* not through the edit buffer, so the file's schema changes at once; then
\* updateFields() and getFeatures().
AddAreaField(r) ==
    /\ pc[r] = "addattr"
    /\ \/ /\ lyr[r].valid
          /\ result_pol' = [result_pol EXCEPT !.hasArea = TRUE]
          /\ lyr' = [lyr EXCEPT ![r].hasArea = TRUE]
          /\ UNCHANGED failed
       \/ /\ failed' = Fail(r, "addAttributes")
          /\ UNCHANGED <<result_pol, lyr>>
    /\ features' = [features EXCEPT ![r] = LayerFeatures(r)]
    /\ pc' = [pc EXCEPT ![r] = "area"]
    /\ UNCHANGED <<serialized, dirFiles, rasters, outputFile, selected, reads,
                   overlapped>>

\* Variant: only the features with DN = 1 are updated.
UpdateFeatureSuitableOnly(l, feat, value) ==
    IF l.editing /\ feat.DN = 1
    THEN [l EXCEPT !.buf = [g \in DOMAIN l.buf \cup {feat} |->
                               IF g = feat THEN value ELSE l.buf[g]]]
    ELSE l

\* result_lu_layer.updateFeature(feat): the changed attribute goes to the edit
\* buffer; on a layer that is not being edited it returns False.
UpdateFeature(l, feat, value) ==
    IF l.editing
    THEN [l EXCEPT !.buf = [g \in DOMAIN l.buf \cup {feat} |->
                               IF g = feat THEN value ELSE l.buf[g]]]
    ELSE l

\* lines 235-241: one pass of the loop, on any feature not yet visited.
\* feat['area'] raises KeyError when the layer has no such field.
AreaLoop(r) ==
    /\ pc[r] = "area"
    /\ \E feat \in features[r] :
          \/ /\ lyr[r].hasArea
             /\ lyr' = [lyr EXCEPT ![r] =
                           UpdateFeature(lyr[r], feat, ExprArea(feat, cellsize))]
             /\ features' = [features EXCEPT ![r] = @ \ {feat}]
             /\ UNCHANGED <<pc, failed>>
          \/ /\ ~lyr[r].hasArea
             /\ Raise(r, "area")
             /\ UNCHANGED <<lyr, features>>
    /\ UNCHANGED <<serialized, dirFiles, rasters, result_pol, outputFile, selected,
                   reads, overlapped>>

\* line 242: commitChanges(); its result is not looked at.  A successful
\* commit writes the buffered values to the file and ends the edit session;
\* a failed one changes nothing and is not followed by rollBack().
CommitChanges(r) ==
    /\ pc[r] = "area"
    /\ features[r] = {}
    /\ \/ /\ lyr[r].editing
          /\ result_pol.hasArea \/ DOMAIN lyr[r].buf = {}
          /\ result_pol' = [result_pol EXCEPT !.area =
                [f \in DOMAIN @ |-> IF f \in DOMAIN lyr[r].buf THEN lyr[r].buf[f] ELSE @[f]]]
          /\ lyr' = [lyr EXCEPT ![r].editing = FALSE, ![r].committed = TRUE,
                                ![r].buf = [f \in {} |-> NULL]]
          /\ UNCHANGED failed
       \/ /\ failed' = Fail(r, "commit")
          /\ UNCHANGED <<result_pol, lyr>>
    /\ pc' = [pc EXCEPT ![r] = "select"]
    /\ UNCHANGED <<serialized, dirFiles, rasters, outputFile, features, selected,
                   reads, overlapped>>

\* #10.1, line 248: selectByExpression(query)
Select(r) ==
    /\ pc[r] = "select"
    /\ selected' = [selected EXCEPT ![r] =
                       {f \in LayerFeatures(r) : SelectQuery(f, cellsize)}]
    /\ pc' = [pc EXCEPT ![r] = "export"]
    /\ UNCHANGED <<serialized, dirFiles, rasters, result_pol, outputFile, lyr,
                   features, reads, failed, overlapped>>

\* #10.2, lines 252-255: native:saveselectedfeatures -> outputFile
Export(r) ==
    /\ pc[r] = "export"
    /\ \/ /\ outputFile' = [outputFile EXCEPT ![r] =
                [exists |-> TRUE,
                 feats |-> {[geom |-> f.geom, DN |-> f.DN, area |-> LayerArea(r, f)] :
                               f \in selected[r]}]]
          /\ pc' = [pc EXCEPT ![r] = "done"]
          /\ UNCHANGED failed
       \/ /\ Raise(r, "export")
          /\ UNCHANGED outputFile
    /\ UNCHANGED <<serialized, dirFiles, rasters, result_pol, lyr, features, selected,
                   reads, overlapped>>

Next ==
    \E r \in RunIds :
        \/ Start(r)
        \/ LandUseFilter(r)
        \/ SlopeDerive(r)
        \/ SlopeFilter(r)
        \/ Composite(r)
        \/ Vectorize(r)
        \/ LoadLayer(r)
        \/ AddAreaField(r)
        \/ AreaLoop(r)
        \/ CommitChanges(r)
        \/ Select(r)
        \/ Export(r)

\* Invocations on one directory, serialized by the caller.
Spec == Init /\ [][Next]_vars

\* Two invocations on one directory, not serialized.
SpecConc == InitConc /\ [][Next]_vars

----
\* Properties

Done(r) == pc[r] = "done"
PastAreaStage(r) == pc[r] \in {"select", "export", "done"}

\* Planar area of a set of square cells.
PlanarArea(g) == Cardinality(g) * cellsize * cellsize

\* Cells that meet the four conditions for the input rasters of run r.
SuitableCells(r) ==
    {c \in Cells : /\ 1 < land_use[r][c] /\ land_use[r][c] < 9
                   /\ dem.data[c] <= 20
                   /\ urban.data[c] = 1
                   /\ existing_vineyard.data[c] = 1}

\* g hangs together through shared cell edges.
Connected4(g) ==
    \A h \in SUBSET g :
        (h # {} /\ h # g) =>
            \E a \in h, b \in g \ h :
                \/ a[1] = b[1] /\ (a[2] - b[2] = 1 \/ b[2] - a[2] = 1)
                \/ a[2] = b[2] /\ (a[1] - b[1] = 1 \/ b[1] - a[1] = 1)

\* The maximal 4-connected regions of a set of cells.
MaximalRegions(cs) ==
    {g \in SUBSET cs :
        /\ g # {}
        /\ Connected4(g)
        /\ \A h \in SUBSET cs : (g \subseteq h /\ Connected4(h)) => h = g}

ExpectedOutput(r) ==
    {[geom |-> g, DN |-> 1, area |-> PlanarArea(g)] :
        g \in {x \in MaximalRegions(SuitableCells(r)) : PlanarArea(x) > 40000}}

\* C1: whenever the composite stage completes, each cell of result_lu.tif is
\* 1 if suit_slope = 1, suit_lu > 0, urban = 1 and existing_vineyard = 1 at
\* that cell of the rasters it read, and 0 otherwise.
C1_CompositeStep ==
    [][\A r \in RunIds :
          (pc[r] = "comp" /\ pc'[r] = "poly") =>
              /\ result_lu'.exists
              /\ \A c \in Cells :
                    result_lu'.data[c] =
                        IF /\ suit_slope.data[c] = 1
                           /\ suit_lu.data[c] > 0
                           /\ urban.data[c] = 1
                           /\ existing_vineyard.data[c] = 1
                        THEN 1 ELSE 0]_vars

\* The composite stage has run on a raster set where one cell meets all four
\* conditions and another fails only because urban is 2 rather than 1.
C1_Witness ==
    \E r \in RunIds :
        /\ pc[r] = "poly" /\ result_lu.by = r
        /\ \E c, d \in Cells :
              /\ result_lu.data[c] = 1
              /\ result_lu.data[d] = 0
              /\ urban.data[d] = 2
              /\ suit_slope.data[d] = 1 /\ suit_lu.data[d] > 0
              /\ existing_vineyard.data[d] = 1

\* C2: whenever the export completes, the features written to the output are
\* exactly the features of the vectorized layer with area > 40000 and DN = 1.
C2_ExportStep ==
    [][\A r \in RunIds :
          (pc[r] = "export" /\ pc'[r] = "done") =>
              /\ outputFile'[r].exists
              /\ {[geom |-> o.geom, DN |-> o.DN] : o \in outputFile'[r].feats}
                   = {f \in LayerFeatures(r) : PlanarArea(f.geom) > 40000 /\ f.DN = 1}]_vars

\* An export has completed on a layer holding a DN = 1 feature of area exactly
\* 40000 and a DN = 0 feature of area above 40000; neither was exported.
C2_Witness ==
    \E r \in RunIds :
        /\ Done(r) /\ lyr[r].valid /\ result_pol.by = r
        /\ outputFile[r].exists
        /\ \E f, g \in result_pol.feats :
              /\ f.DN = 1 /\ PlanarArea(f.geom) = 40000
              /\ g.DN = 0 /\ PlanarArea(g.geom) > 40000
              /\ \A o \in outputFile[r].feats : o.geom # f.geom /\ o.geom # g.geom

\* C3: whenever the land-use filter completes, a cell of suit_lu.tif is
\* nonzero exactly when its source value v has 1 < v < 9, and then equals v.
C3_LandUseStep ==
    [][\A r \in RunIds :
          (pc[r] = "lu" /\ pc'[r] = "slope") =>
              /\ suit_lu'.exists
              /\ \A c \in Cells :
                    LET v == land_use[r][c]
                    IN  /\ suit_lu'.data[c] # 0 <=> (1 < v /\ v < 9)
                        /\ suit_lu'.data[c] # 0 => suit_lu'.data[c] = v]_vars

\* The filter has run on a raster holding the values 1, 2, 8 and 9.
C3_Witness ==
    \E r \in RunIds :
        /\ pc[r] = "slope" /\ suit_lu.by = r
        /\ \E a, b, c, d \in Cells :
              /\ land_use[r][a] = 1 /\ suit_lu.data[a] = 0
              /\ land_use[r][b] = 2 /\ suit_lu.data[b] = 2
              /\ land_use[r][c] = 8 /\ suit_lu.data[c] = 8
              /\ land_use[r][d] = 9 /\ suit_lu.data[d] = 0

C5_EndToEnd ==
    \A r \in RunIds :
        (Done(r) /\ failed[r] = "none") =>
            /\ outputFile[r].exists
            /\ outputFile[r].feats = ExpectedOutput(r)

\* A run on a single suitable 300 x 300 region has ended with one output
\* feature of area 90000 and DN = 1.
C5_Witness ==
    \E r \in RunIds :
        /\ Done(r) /\ failed[r] = "none" /\ cellsize = 300
        /\ Cardinality(SuitableCells(r)) = 1
        /\ \E o \in outputFile[r].feats :
              outputFile[r].feats = {o} /\ o.area = 90000 /\ o.DN = 1

\* C6: once an operation of a run has failed, the run's output destination
\* is never written.
C6_FailureLeavesNoOutput ==
    \A r \in RunIds : failed[r] # "none" => ~outputFile[r].exists

\* C7: after the area stage either the commit succeeded and every feature
\* has its area, or neither the 'area' field nor any area value is in the file.
C7_AtomicSession ==
    \A r \in RunIds :
        (PastAreaStage(r) /\ result_pol.by = r) =>
            \/ /\ lyr[r].committed
               /\ result_pol.hasArea
               /\ \A f \in result_pol.feats : result_pol.area[f] = PlanarArea(f.geom)
            \/ /\ ~result_pol.hasArea
               /\ \A f \in result_pol.feats : result_pol.area[f] = NULL

ReadsOwn(r) == \A p \in reads[r] : p[2] = r

\* C9: as long as the two invocations have not been in progress at the same
\* time, every intermediate a run read was written by that run.
C9_SerializedReadsOwn ==
    ~overlapped => \A r \in RunIds : ReadsOwn(r)

\* Two overlapping invocations: run 1, whose own land-use raster has no
\* suitable cell, read the suit_lu.tif written by run 2 and exported a feature.
C9_Witness ==
    /\ overlapped
    /\ Done(1) /\ failed[1] = "none"
    /\ <<"suit_lu.tif", 2>> \in reads[1]
    /\ ExpectedOutput(1) = {}
    /\ outputFile[1].feats # {}

StageOrder ==
    {<<"idle", "lu">>, <<"lu", "slope">>, <<"slope", "sfilter">>,
     <<"sfilter", "comp">>, <<"comp", "poly">>, <<"poly", "load">>,
     <<"load", "addattr">>, <<"addattr", "area">>, <<"area", "select">>,
     <<"select", "export">>, <<"export", "done">>}

\* C10: a run moves from each stage only to the next one (or stops), and
\* every intermediate it reads was written by an earlier stage of that run.
C10_SequentialOwnIntermediates ==
    [][\A r \in RunIds :
          /\ pc'[r] # pc[r] => (<<pc[r], pc'[r]>> \in StageOrder \/ pc'[r] = "aborted")
          /\ ReadsOwn(r)']_vars

\* A second invocation has completed after a first one on the same
\* directory, each with the output of its own input.
C10_Witness ==
    /\ ~overlapped
    /\ Done(1) /\ Done(2) /\ failed[1] = "none" /\ failed[2] = "none"
    /\ result_pol.by = 2
    /\ Cardinality(reads[2]) = 5
    /\ outputFile[1].feats # outputFile[2].feats

====
